---- MODULE Spec2Model ----
(***************************************************************************)
(* Radar sweep / persistence engine of WhatPlaneIsThat.                    *)
(*                                                                         *)
(* The model follows the newest revision of the program: the model and    *)
(* handlers of src/unnamed/part_001 (lines 393-942), the painters of       *)
(* src/radar.go and the fetch layer of src/unnamed/part_000 (lines 1-166). *)
(*                                                                         *)
(* Numbers.  The program computes in float64.  Angles are modelled as      *)
(* integers in milliradians (0.1 rad = 100), distances in whole nautical   *)
(* miles, sines and cosines in thousandths.  A quarter turn is 1571 mrad   *)
(* and a full turn is four quarter turns (6284 mrad), so that the four     *)
(* cardinal directions are exact.  Go's int(f) truncates toward zero and   *)
(* math.Mod keeps the sign of the dividend; both are modelled as such.     *)
(***************************************************************************)
EXTENDS Integers, Sequences, FiniteSets, TLC

VARIABLES
    pc,                  \* "view": View is due; "idle": waiting for a message; "quit"; "fatal": ended by log.Fatal
    lastMsg,             \* the kind of the last message Update handled
    width, height,       \* model.width, model.height
    sweepAngle,          \* model.sweepAngle (mrad)
    northOffset,         \* model.northOffset (mrad)
    radarRange,          \* model.radarRange (NM)
    buffer,              \* model.buffer: rows of cells, buffer[y+1][x+1] is Go's buffer[y][x]
    planes,              \* model.planes
    visiblePlanes,       \* model.visiblePlanes: the flight codes mapped to true
    rows,                \* the rows of model.tbl, each <<flight code, distance>>
    tableLoaded,         \* model.tableLoaded
    initialPlanesLoaded, \* model.initialPlanesLoaded
    showModal,           \* model.showModal
    modalFocused,        \* model.modalFocused
    focus,               \* which text input is focused: "none", "lat", "lon"
    ticks,               \* number of tick messages handled
    keys,                \* number of key messages handled
    resizes,             \* number of window-size messages handled
    fetchCount,          \* number of calls of GetPlanes
    swept,               \* the planes UpdatePlaneRow was called for by the last tick, in order
    painted,             \* the glyphs renderPlanes wrote in the last repaint: code, x, y
    sinceSwept,          \* per listed plane: ticks since UpdatePlaneRow was last called for it,
                         \* or since the list, the range or the north offset last changed
    pendingTicks,        \* tick commands returned to the runtime whose tickMsg is not yet
                         \* delivered
    probe,               \* input and result of a direct application of withinSweep
    routeInfoCache,      \* the package-level map routeInfoCache: flight code -> route, cachedAt
    now,                 \* the wall clock, in minutes
    sess                 \* per SSH session: where its goroutine is inside GetLocalFlights

vars == <<pc, lastMsg, width, height, sweepAngle, northOffset, radarRange, buffer,
          planes, visiblePlanes, rows, tableLoaded, initialPlanesLoaded, showModal,
          modalFocused, focus, ticks, keys, resizes, fetchCount, swept, painted, probe,
          routeInfoCache, now, sess, sinceSwept, pendingTicks>>

-----------------------------------------------------------------------------
(* Bounds of the exploration *)

\* Tick messages explored.
MaxTicks == 66

\* Tick messages explored when no key is pressed.
MaxLongTicks == 106

\* Key messages and tick messages explored when keys follow keys.
MaxModalKeys == 3
MaxModalTicks == 3

\* Tick messages explored when the degenerate sizes are explored.
MaxEdgeTicks == 4

\* Tick messages explored when two revolutions of the sweep are followed.
MaxRoundTicks == 127

\* Key messages explored.
MaxKeys == 1

\* The largest longitude difference (degrees) and the grain of the latitudes
\* (degrees) SetPlaneLocationDetails is applied to.
MaxLonDiff == 2
LatGrain == 5

\* The largest heading (degrees) getPlaneSymbol is applied to.
MaxHeading == 359

\* Key messages explored when only the range keys are pressed.
MaxRangeKeys == 40

\* Window-size messages explored.
MaxResizes == 2

\* Key and window-size messages are explored while fewer than this many ticks were handled.
EventHorizon == 2

\* The north offsets withinSweep is applied to are up to this many key steps either way.
MaxOffsetSteps == 1

\* The bearings withinSweep is applied to are the multiples of this many milliradians.
BearingGrain == 10

\* The SSH sessions followed inside GetLocalFlights.
NumSessions == 2

\* The calls of GetLocalFlights followed per session.
MaxSessionFetches == 1

\* The aircraft of a list followed per call of GetLocalFlights of a session.
MaxSessionPlanes == 2

\* The minutes of wall-clock time explored.
MaxNow == 11

\* The terminal sizes (width, height) of the pty and of window-size messages.
Sizes == {<<28, 7>>, <<8, 4>>}

\* The sizes of window-size messages when the degenerate ones are explored: no
\* columns, no rows, fewer than 5 rows or columns of the grid, exactly 5, and larger.
EdgeSizes == {<<0, 0>>, <<28, 0>>, <<0, 7>>, <<1, 7>>, <<8, 4>>, <<9, 7>>, <<10, 5>>,
              <<28, 7>>, <<40, 9>>}

-----------------------------------------------------------------------------
(* Program constants *)

MIN_RADAR_RANGE == 1
MAX_RADAR_RANGE == 200
DEFAULT_RADAR_RANGE == 15

\* DEFAULT_ASPECT_RATIO = 0.5, kept as its inverse: multiplying by it divides by 2.
AspectInv == 2

\* math.Pi / 2, math.Pi and 2 * math.Pi in milliradians.
HalfPi == 1571
Pi == 2 * HalfPi
TwoPi == 4 * HalfPi

\* The sweep step per tick (0.1 rad) and the sweep window (0.5 rad).
SweepStep == 100
SweepWidth == 500

\* The north-offset step of the "[" and "]" keys (0.1 rad).
OffsetStep == 100

\* The ceiling of cell.sweepAge.
MaxAge == 100

-----------------------------------------------------------------------------
(* Arithmetic of the float64 code in integers *)

\* Go's int(a / b) for b > 0: truncation toward zero.
TruncDiv(a, b) == IF a >= 0 THEN a \div b ELSE -((-a) \div b)

\* math.Mod(a, m) for m > 0: the result has the sign of a.
GoMod(a, m) == a - m * TruncDiv(a, m)

Min(a, b) == IF a <= b THEN a ELSE b

\* 1000 * sin(x / 1000) for 0 <= x <= HalfPi, by the Taylor series up to x^7;
\* the value 1000 (sine exactly 1) is given at the quarter turn only.
SinQ(x) ==
    LET x2 == (x * x) \div 1000
        t3 == (x * x2) \div 6000
        t5 == (t3 * x2) \div 20000
        t7 == (t5 * x2) \div 42000
    IN  IF x = HalfPi THEN 1000 ELSE Min(999, x - t3 + t5 - t7)

\* 1000 * sin(a / 1000) for 0 <= a < TwoPi, by the symmetries of the sine.
SinTurn(a) ==
    IF a <= HalfPi THEN SinQ(a)
    ELSE IF a <= Pi THEN SinQ(Pi - a)
    ELSE IF a <= Pi + HalfPi THEN -SinQ(a - Pi)
    ELSE -SinQ(TwoPi - a)

\* The sines of one turn, tabulated once.
SinTable == [a \in 0..(TwoPi - 1) |-> SinTurn(a)]

\* 1000 * math.Sin(t / 1000) for any integer t.
Sin1000(t) == SinTable[t % TwoPi]

\* 1000 * math.Cos(t / 1000).
Cos1000(t) == Sin1000(t + HalfPi)

-----------------------------------------------------------------------------
(* The bearing of an aircraft *)

\* deg * math.Pi / 180, in mrad.
Radians(deg) == TruncDiv(deg * Pi, 180)

\* math.Atan2(y, x) in mrad, on a grid of BearingGrain mrad: the angle of the
\* grid on the side of y whose direction is nearest to (x, y), i.e. where the
\* projection of (x, y) on the direction is largest, up to the resolution of the
\* sine table; on the axis y = 0 the result is exactly 0 for x >= 0 and pi for x < 0.
Atan2(y, x) ==
    IF y = 0 THEN (IF x >= 0 THEN 0 ELSE Pi)
    ELSE LET grid == {k * BearingGrain : k \in 1..(Pi \div BearingGrain)}
             side == IF y > 0 THEN grid ELSE {-t : t \in grid}
             dot(t) == x * Cos1000(t) + y * Sin1000(t)
         IN  CHOOSE t \in side : /\ dot(t - BearingGrain) <= dot(t)
                                  /\ dot(t + BearingGrain) <= dot(t)

\* Mutant: the bearing computed from the degrees as if they were radians, as in
\* the earlier revision (main.go).
BearingNoConversion(lat0, lon0, lat1, lon1) ==
    LET lat0Rad == lat0 * 1000
        lat1Rad == lat1 * 1000
        dLonRad == (lon1 - lon0) * 1000
        y == Sin1000(dLonRad) * Cos1000(lat1Rad)
        x == Cos1000(lat0Rad) * Sin1000(lat1Rad)
             - TruncDiv(Sin1000(lat0Rad) * Cos1000(lat1Rad) * Cos1000(dLonRad), 1000)
        bearing == Atan2(y, x)
    IN  IF bearing < 0 THEN bearing + TwoPi ELSE bearing

\* p.BearingFromObserver as SetPlaneLocationDetails stores it (mrad), for an
\* observer at (lat0, lon0) and an aircraft at (lat1, lon1), all in degrees.
Bearing(lat0, lon0, lat1, lon1) ==
    LET lat0Rad == Radians(lat0)
        lat1Rad == Radians(lat1)
        dLonRad == Radians(lon1 - lon0)
        y == Sin1000(dLonRad) * Cos1000(lat1Rad)
        x == Cos1000(lat0Rad) * Sin1000(lat1Rad)
             - TruncDiv(Sin1000(lat0Rad) * Cos1000(lat1Rad) * Cos1000(dLonRad), 1000)
        bearing == Atan2(y, x)
    IN  IF bearing < 0 THEN bearing + TwoPi ELSE bearing

-----------------------------------------------------------------------------
(* Sweep membership *)

\* Mutant: the sign of the north offset of an earlier revision.
withinSweepPlusOffset(bearing, sweep, w, offset) ==
    LET b == GoMod(bearing + offset, TwoPi)
        s == GoMod(sweep, TwoPi)
        diff == GoMod(s - b + TwoPi, TwoPi)
    IN  diff <= w

\* Mutant: a symmetric "near the arm" test.
withinSweepSymmetric(bearing, sweep, w, offset) ==
    LET b == GoMod(bearing - offset, TwoPi)
        s == GoMod(sweep, TwoPi)
        diff == GoMod(s - b + TwoPi, TwoPi)
    IN  diff <= w \/ TwoPi - diff <= w

withinSweep(bearing, sweep, w, offset) ==
    LET b == GoMod(bearing - offset, TwoPi)
        s == GoMod(sweep, TwoPi)
        diff == GoMod(s - b + TwoPi, TwoPi)
    IN  diff <= w

-----------------------------------------------------------------------------
(* Cells, planes and the aircraft lists a fetch can return *)

\* cell{' ', "blank", int(100)}: the cell a window-size message fills the buffer with.
BlankCell == [char |-> " ", kind |-> "blank", sweepAge |-> MaxAge]

\* A plane after SetPlaneLocationDetails: flight code, bearing (mrad, in [0, 2 pi)),
\* distance (NM) and heading (degrees).
Plane(code, bearing, dist, heading) ==
    [FlightCode |-> code, BearingFromObserver |-> bearing,
     DistanceFromObserver |-> dist, Heading |-> heading]

\* The lists GetLocalFlights can decode, with the derived fields set: three aircraft
\* in the default range (one due north at exactly the default range, one at 6.25 rad,
\* in the arc between the last angle of a revolution and 2 pi), no aircraft, and three
\* aircraft sharing a flight code, the one due north out of range, the other two
\* 0.2 rad apart.
FetchLists ==
    { << Plane("BAW1", 0, 15, 0), Plane("EZY2", 100, 8, 90), Plane("RYR3", 6250, 10, 270) >>,
      << >>,
      << Plane("BAW1", 0, 40, 0), Plane("BAW1", 3000, 12, 200), Plane("BAW1", 3200, 10, 200) >> }

\* What http.Get, io.ReadAll and json.Unmarshal can produce in GetLocalFlights:
\* a decoded list, or an error, on which log.Fatal ends the process.
FetchOutcomes == [ok : {TRUE}, list : FetchLists] \cup {[ok |-> FALSE, list |-> << >>]}

\* The outcomes followed inside GetLocalFlights for the sessions: the lists of
\* FetchLists up to their first MaxSessionPlanes aircraft.
SessionFetchOutcomes ==
    {[ok |-> res.ok,
      list |-> SubSeq(res.list, 1, IF Len(res.list) < MaxSessionPlanes
                                   THEN Len(res.list) ELSE MaxSessionPlanes)] :
        res \in FetchOutcomes}

-----------------------------------------------------------------------------
(* The route lookups of GetLocalFlights and their cache *)

\* routeInfoCacheTTL, in minutes.
RouteTTL == 10

\* createEmptyFlightRoute() and the route decoded for a flight code.
EmptyRoute == "empty"
RouteOf(code) == "route"

\* How the lookup of SetFlightRouteInfo can end: http.Get fails, io.ReadAll fails, the
\* service answers "unknown callsign", the body does not decode, or a route is decoded.
LookupOutcomes == {"getErr", "readErr", "unknown", "badJson", "route"}

\* The test of lines 80-81: an entry exists and time.Since(cachedAt) <= routeInfoCacheTTL.
CacheHit(cache, code, t) ==
    code \in DOMAIN cache /\ t - cache[code].cachedAt <= RouteTTL

\* routeInfoCache[code] = cachedFlightRoute{route, time.Now()}.
CachePut(cache, code, route, t) ==
    [c \in DOMAIN cache \cup {code} |->
        IF c = code THEN [route |-> route, cachedAt |-> t] ELSE cache[c]]

\* Mutant: a lookup writes the cache however it ended.
LookupStoresAlways(outcome) == TRUE

\* Whether a lookup that ended this way writes the cache, and the route it gives.
LookupStores(outcome) == outcome \in {"unknown", "route"}
LookupRoute(code, outcome) == IF outcome = "route" THEN RouteOf(code) ELSE EmptyRoute

\* SetFlightRouteInfo(p) as a whole: the route given to p and the cache afterwards.
SetFlightRouteInfo(cache, code, outcome, t) ==
    IF CacheHit(cache, code, t)
    THEN [route |-> cache[code].route, cache |-> cache]
    ELSE [route |-> LookupRoute(code, outcome),
          cache |-> IF LookupStores(outcome)
                    THEN CachePut(cache, code, LookupRoute(code, outcome), t)
                    ELSE cache]

\* The cache after the loop of GetLocalFlights over the list ps from index i on, when
\* the route service answers every lookup with a route.
RECURSIVE EnrichAll(_, _, _, _)
EnrichAll(cache, ps, i, t) ==
    IF i > Len(ps) THEN cache
    ELSE EnrichAll(SetFlightRouteInfo(cache, ps[i].FlightCode, "route", t).cache,
                   ps, i + 1, t)

\* The SSH sessions whose goroutines are followed inside GetLocalFlights.
Sessions == 1..NumSessions

\* A session outside GetLocalFlights, with the aircraft list it holds.
IdleSession ==
    [pc |-> "idle", list |-> << >>, i |-> 0, routes |-> << >>, pending |-> EmptyRoute,
     planes |-> << >>, fetches |-> 0, read |-> FALSE, wrote |-> FALSE]

-----------------------------------------------------------------------------
(* The state after newModel and radarBubbleteaMiddleware *)

\* The probe of withinSweep before it is applied.
NoProbe == [sweepAngle |-> 0, northOffset |-> 0, bearing |-> 0,
            applied |-> FALSE, result |-> FALSE]

\* The commands Init and the handlers of Update return to the runtime: "doTick"
\* (tea.Tick of 200 ms giving a tickMsg), "Quit" (tea.Quit), "nil", and "input" for
\* what the focused text input returns (its cursor's commands; no tickMsg, no Quit).
InitCmd == "doTick"

\* Mutant: the tick handler returns no command.
handleTickMsgCmdNil == "nil"

handleTickMsgCmd == "doTick"

handleWindowResizeCmd == "nil"

handleKeyInputCmd(k) == IF k = "ctrl+c" THEN "Quit" ELSE "nil"

handleModalInputCmd(k) == IF k \in {"tab", "enter", "esc"} THEN "nil" ELSE "input"

\* The ticks a returned command schedules.
TicksOf(cmd) == IF cmd = "doTick" THEN 1 ELSE 0

InitModel ==
    /\ pc = "view"
    /\ lastMsg = "init"
    /\ \E s \in Sizes : width = s[1] /\ height = s[2]
    /\ sweepAngle = 0
    /\ northOffset = 0
    /\ radarRange = DEFAULT_RADAR_RANGE
    /\ buffer = << >>
    /\ planes = << >>
    /\ visiblePlanes = {}
    /\ rows = << >>
    /\ tableLoaded = FALSE
    /\ initialPlanesLoaded = FALSE
    /\ showModal = FALSE
    /\ modalFocused = FALSE
    /\ focus = "none"
    /\ ticks = 0
    /\ keys = 0
    /\ resizes = 0
    /\ fetchCount = 0
    /\ swept = << >>
    /\ painted = {}
    /\ sinceSwept = << >>
    /\ pendingTicks = TicksOf(InitCmd)

\* The package-level state (the empty routeInfoCache) and the sessions at their start.
InitFetchLayer ==
    /\ routeInfoCache = << >>
    /\ now = 0
    /\ sess = [s \in Sessions |-> IdleSession]

Init == InitModel /\ probe = NoProbe /\ InitFetchLayer

-----------------------------------------------------------------------------
(* The listing *)

\* The last index of a row with this flight code, 0 when there is none.
RowIndex(rws, code) ==
    LET hits == {i \in 1..Len(rws) : rws[i][1] = code}
    IN  IF hits = {} THEN 0 ELSE CHOOSE i \in hits : \A j \in hits : j <= i

\* Mutant: the new row is put on top without removing the old one.
UpdatePlaneRowKeepOld(rws, p) ==
    << <<p.FlightCode, p.DistanceFromObserver>> >> \o rws

UpdatePlaneRow(rws, p) ==
    LET index == RowIndex(rws, p.FlightCode)
        newRow == <<p.FlightCode, p.DistanceFromObserver>>
    IN  IF index = 0
        THEN <<newRow>> \o rws
        ELSE <<newRow>> \o SubSeq(rws, 1, index - 1) \o SubSeq(rws, index + 1, Len(rws))

-----------------------------------------------------------------------------
(* The tick handler *)

\* Mutant: the angle is reduced modulo 2 pi instead of being reset.
AdvanceSweepMod(a) == (a + SweepStep) % TwoPi

\* Mutant: the angle is never reset.
AdvanceSweepNoWrap(a) == a + SweepStep

\* m.sweepAngle += 0.1; if m.sweepAngle >= 2*math.Pi { m.sweepAngle = 0 ... }
AdvanceSweep(a) == IF a + SweepStep >= TwoPi THEN 0 ELSE a + SweepStep

\* Mutant: the aircraft list is refreshed on every tick.
WrapsEveryTick(a) == TRUE

\* Whether the tick that starts at angle a wraps, and so calls GetPlanes.
Wraps(a) == a + SweepStep >= TwoPi

\* Mutant: the age is not clamped.
AgeCellNoClamp(c) == [c EXCEPT !.sweepAge = @ + 1]

AgeCell(c) == IF c.sweepAge < MaxAge THEN [c EXCEPT !.sweepAge = @ + 1] ELSE c

\* Mutant: the tick also clears the cells of kind plane.
AgeAllClearPlanes(buf) ==
    [y \in DOMAIN buf |-> [x \in DOMAIN buf[y] |->
        IF buf[y][x].kind = "plane"
        THEN [char |-> " ", kind |-> "blank", sweepAge |-> AgeCell(buf[y][x]).sweepAge]
        ELSE AgeCell(buf[y][x])]]

AgeAll(buf) == [y \in DOMAIN buf |-> [x \in DOMAIN buf[y] |-> AgeCell(buf[y][x])]]

\* The planes within range: currentVisible.
CurrentVisible(ps, rng) ==
    {ps[i].FlightCode : i \in {j \in 1..Len(ps) : ps[j].DistanceFromObserver <= rng}}

\* Mutant: the sweep window is not restricted to the planes within range.
CurrentInSweepAnyRange(ps, rng, sweep, offset) ==
    {ps[i].FlightCode : i \in {j \in 1..Len(ps) :
        withinSweep(ps[j].BearingFromObserver, sweep, SweepWidth, offset)}}

\* The planes within range and in the sweep window: currentInSweep.
CurrentInSweep(ps, rng, sweep, offset) ==
    {ps[i].FlightCode : i \in {j \in 1..Len(ps) :
        /\ ps[j].DistanceFromObserver <= rng
        /\ withinSweep(ps[j].BearingFromObserver, sweep, SweepWidth, offset)}}

\* Mutant: level-triggered, the previous membership is not consulted.
NewlySweptLevel(p, rng, sweep, offset, vis) ==
    /\ p.DistanceFromObserver <= rng
    /\ withinSweep(p.BearingFromObserver, sweep, SweepWidth, offset)

\* The condition under which the loop calls UpdatePlaneRow for p.
NewlySwept(p, rng, sweep, offset, vis) ==
    /\ p.DistanceFromObserver <= rng
    /\ withinSweep(p.BearingFromObserver, sweep, SweepWidth, offset)
    /\ p.FlightCode \notin vis

\* The loop over m.planes from index i on: the rows and the planes UpdatePlaneRow
\* was called for.
RECURSIVE TickLoop(_, _, _, _, _, _, _)
TickLoop(ps, i, rng, sweep, offset, vis, acc) ==
    IF i > Len(ps) THEN acc
    ELSE IF NewlySwept(ps[i], rng, sweep, offset, vis)
         THEN TickLoop(ps, i + 1, rng, sweep, offset, vis,
                       [rows |-> UpdatePlaneRow(acc.rows, ps[i]),
                        swept |-> Append(acc.swept, ps[i])])
         ELSE TickLoop(ps, i + 1, rng, sweep, offset, vis, acc)

\* Mutant: the rows of planes that are no longer within range are kept.
FilterRowsKeepAll(rws, visible) == rws

\* The rows whose flight code is in currentVisible, in order.
FilterRows(rws, visible) == SelectSeq(rws, LAMBDA row : row[1] \in visible)

\* handleTickMsg, ps being the aircraft list after the refresh (if any).
TickEffect(ps) ==
    LET sweep == AdvanceSweep(sweepAngle)
        loop == TickLoop(ps, 1, radarRange, sweep, northOffset, visiblePlanes,
                         [rows |-> rows, swept |-> << >>])
    IN  /\ sweepAngle' = sweep
        /\ planes' = ps
        /\ buffer' = AgeAll(buffer)
        /\ rows' = FilterRows(loop.rows, CurrentVisible(ps, radarRange))
        /\ swept' = loop.swept
        /\ sinceSwept' = [i \in 1..Len(ps) |->
                              IF \E k \in 1..Len(loop.swept) : loop.swept[k] = ps[i] THEN 0
                              ELSE IF ps = planes THEN sinceSwept[i] + 1
                              ELSE 1]
        /\ visiblePlanes' = CurrentInSweep(ps, radarRange, sweep, northOffset)
        /\ ticks' = ticks + 1
        /\ lastMsg' = "tick"
        /\ pc' = "view"
        /\ routeInfoCache' = IF Wraps(sweepAngle)
                             THEN EnrichAll(routeInfoCache, ps, 1, now)
                             ELSE routeInfoCache

\* GetLocalFlights failed inside the tick: log.Fatal ends the process after the
\* angle was reset and before anything else is written.
TickFatal ==
    /\ sweepAngle' = 0
    /\ lastMsg' = "tick"
    /\ pc' = "fatal"
    /\ UNCHANGED <<planes, buffer, rows, swept, visiblePlanes, ticks, routeInfoCache,
                   sinceSwept>>

\* Update on a tickMsg, explored for the first limit ticks.
TickMsg(limit) ==
    /\ pc = "idle"
    /\ ticks < limit
    /\ pendingTicks > 0
    /\ pendingTicks' = pendingTicks - 1 + TicksOf(handleTickMsgCmd)
    /\ IF Wraps(sweepAngle)
       THEN /\ fetchCount' = fetchCount + 1
            /\ \E res \in FetchOutcomes :
                   IF res.ok THEN TickEffect(res.list) ELSE TickFatal
       ELSE /\ fetchCount' = fetchCount
            /\ TickEffect(planes)
    /\ UNCHANGED <<width, height, northOffset, radarRange, tableLoaded,
                   initialPlanesLoaded, showModal, modalFocused, focus, keys,
                   resizes, painted, probe, now, sess>>

handleTickMsg == TickMsg(MaxTicks)

-----------------------------------------------------------------------------
(* The key handlers *)

\* The key messages told apart by the handlers; "x" is any other key.
KeyNames == {"ctrl+c", "]", "[", "=", "-", "m", "tab", "enter", "esc", "x"}

\* Mutant: the "=" key without the upper limit.
RangeUpNoLimit(r) == IF r = 1 THEN 5 ELSE r + 5

\* case "=" of handleKeyInput.
RangeUp(r) ==
    IF r < MAX_RADAR_RANGE THEN (IF r = 1 THEN 5 ELSE r + 5) ELSE r

\* case "-" of handleKeyInput.
RangeDown(r) ==
    IF r > MIN_RADAR_RANGE THEN (IF r = 5 THEN 1 ELSE r - 5) ELSE r

handleKeyInput(k) ==
    /\ pc' = IF handleKeyInputCmd(k) = "Quit" THEN "quit" ELSE "view"
    /\ pendingTicks' = pendingTicks + TicksOf(handleKeyInputCmd(k))
    /\ northOffset' = IF k = "]" THEN northOffset + OffsetStep
                      ELSE IF k = "[" THEN northOffset - OffsetStep
                      ELSE northOffset
    /\ radarRange' = IF k = "=" THEN RangeUp(radarRange)
                     ELSE IF k = "-" THEN RangeDown(radarRange)
                     ELSE radarRange
    /\ showModal' = IF k = "m" THEN ~showModal ELSE showModal
    /\ modalFocused' = IF k = "m" THEN ~showModal ELSE modalFocused
    /\ focus' = IF k = "m" THEN (IF ~showModal THEN "lat" ELSE "none") ELSE focus

\* handleModalInput: "tab" moves the focus, "enter" and "esc" close the modal,
\* every other key (ctrl+c included) goes to the focused text input.
handleModalInput(k) ==
    /\ pc' = IF handleModalInputCmd(k) = "Quit" THEN "quit" ELSE "view"
    /\ pendingTicks' = pendingTicks + TicksOf(handleModalInputCmd(k))
    /\ focus' = IF k = "tab" THEN (IF focus = "lat" THEN "lon" ELSE "lat")
                ELSE IF k \in {"enter", "esc"} THEN "none"
                ELSE focus
    /\ showModal' = IF k \in {"enter", "esc"} THEN FALSE ELSE showModal
    /\ modalFocused' = IF k \in {"enter", "esc"} THEN FALSE ELSE modalFocused
    /\ UNCHANGED <<northOffset, radarRange>>

\* Update on a tea.KeyMsg whose key is one of ks, explored for the first limit keys.
KeyMsgOf(ks, limit) ==
    /\ pc = "idle"
    /\ keys < limit
    /\ ticks < EventHorizon
    /\ \E k \in ks :
           IF showModal /\ modalFocused THEN handleModalInput(k) ELSE handleKeyInput(k)
    /\ keys' = keys + 1
    /\ lastMsg' = "key"
    /\ sinceSwept' = IF radarRange' # radarRange \/ northOffset' # northOffset
                     THEN [i \in 1..Len(planes) |-> 0]
                     ELSE sinceSwept
    /\ UNCHANGED <<width, height, sweepAngle, buffer, planes, visiblePlanes, rows,
                   tableLoaded, initialPlanesLoaded, ticks, resizes, fetchCount,
                   swept, painted, probe, routeInfoCache, now, sess>>

\* Update on a tea.KeyMsg.
KeyMsg == KeyMsgOf(KeyNames, MaxKeys)

-----------------------------------------------------------------------------
(* The window-size handler *)

\* Mutant: the rows are allocated with one cell per terminal column.
NewBufferFullWidth(w, h) == [y \in 1..h |-> [x \in 1..w |-> BlankCell]]

\* make([][]cell, h) with rows of w/2 cells, each cell{' ', "blank", 100}.
NewBuffer(w, h) == [y \in 1..h |-> [x \in 1..(w \div 2) |-> BlankCell]]

\* Update on a tea.WindowSizeMsg whose size is one of sizes: handleWindowResize.
handleWindowResizeOf(sizes) ==
    /\ pc = "idle"
    /\ resizes < MaxResizes
    /\ ticks < EventHorizon
    /\ \E s \in sizes :
        /\ width' = s[1]
        /\ height' = s[2]
        /\ buffer' = NewBuffer(s[1], s[2])
    /\ tableLoaded' = TRUE
    /\ rows' = IF tableLoaded THEN rows ELSE << >>
    /\ IF initialPlanesLoaded
       THEN /\ pc' = "view"
            /\ lastMsg' = "resize"
            /\ UNCHANGED <<planes, initialPlanesLoaded, fetchCount, routeInfoCache,
                           sinceSwept>>
       ELSE \E res \in FetchOutcomes :
            /\ fetchCount' = fetchCount + 1
            /\ IF res.ok
               THEN /\ planes' = res.list
                    /\ sinceSwept' = [i \in 1..Len(res.list) |-> 0]
                    /\ routeInfoCache' = EnrichAll(routeInfoCache, res.list, 1, now)
                    /\ initialPlanesLoaded' = TRUE
                    /\ pc' = "view"
                    /\ lastMsg' = "resize"
               ELSE /\ pc' = "fatal"
                    /\ lastMsg' = "resize"
                    /\ UNCHANGED <<planes, initialPlanesLoaded, routeInfoCache, sinceSwept>>
    /\ resizes' = resizes + 1
    /\ pendingTicks' = pendingTicks + TicksOf(handleWindowResizeCmd)
    /\ UNCHANGED <<sweepAngle, northOffset, radarRange, visiblePlanes, showModal,
                   modalFocused, focus, ticks, keys, swept, painted, probe, now, sess>>

\* Update on a tea.WindowSizeMsg.
handleWindowResize == handleWindowResizeOf(Sizes)

-----------------------------------------------------------------------------
(* The painters of radar.go.  A painter takes a buffer and returns the buffer *)
(* after its writes, applied in the order of the code.                        *)

\* The padding around the radar, the margin of the plane scale and the distance
\* of the bearing labels beyond the radius, in cells.
RadarPadding == 5
PlaneMargin == 4
BearingLabelGap == 3

\* minLabelSpacingPx of renderDistanceLabels.
MinLabelSpacing == 3

\* The sweep arm reaches back 0.15 rad and is sampled at interp = 0, 0.1, ... while
\* interp <= 1.0: eleven samples, the float64 sum reaching 0.9999999999999999.
ArmBack == 150
ArmSamples == 11

\* int(interp * 10) for the eleven float64 values of interp.
InterpAge == <<0, 1, 2, 3, 4, 5, 6, 7, 7, 9, 9>>

\* Mutant: the lower bounds are exclusive, as in the earlier revision (main.go).
inBoundsStrict(w, h, x, y) == x > 0 /\ x < w /\ y > 0 /\ y < h

inBounds(w, h, x, y) == x >= 0 /\ x < w /\ y >= 0 /\ y < h

\* Mutant: a glyph that ignores the heading.
getPlaneSymbolFixed(heading) == "^"

getPlaneSymbol(heading) ==
    IF heading >= 315 \/ heading < 45 THEN "^"
    ELSE IF heading >= 45 /\ heading < 135 THEN ">"
    ELSE IF heading >= 135 /\ heading < 225 THEN "v"
    ELSE IF heading >= 225 /\ heading < 315 THEN "<"
    ELSE "*"

\* radarContext for renderRadar(w, h): center, size and radius (maxR = r).
Context(w, h) ==
    LET maxRx == (w \div 2) - RadarPadding
        maxRy == ((h * AspectInv) \div 2) - RadarPadding
    IN  [cx |-> w \div 2, cy |-> h \div 2, width |-> w, height |-> h,
         maxR |-> Min(maxRx, maxRy), r |-> Min(maxRx, maxRy)]

\* Mutant: the clearing step also clears the plane cells.
ClearCellAll(c) == [c EXCEPT !.char = " ", !.kind = "blank"]

\* Mutant: the clearing step also resets the age.
ClearCellAge(c) ==
    IF c.kind # "plane" THEN [char |-> " ", kind |-> "blank", sweepAge |-> MaxAge] ELSE c

\* The body of the clearing loop of renderRadar.
ClearCell(c) == IF c.kind # "plane" THEN [c EXCEPT !.char = " ", !.kind = "blank"] ELSE c

\* "Clear the buffer": every cell that is not a plane becomes a blank.
ClearTransient(buf) ==
    [y \in DOMAIN buf |-> [x \in DOMAIN buf[y] |-> ClearCell(buf[y][x])]]

\* strconv.Itoa(d) as a sequence of characters, d >= 0.
DigitChars == <<"0", "1", "2", "3", "4", "5", "6", "7", "8", "9">>

RECURSIVE Itoa(_)
Itoa(d) == IF d < 10 THEN <<DigitChars[d + 1]>>
           ELSE Append(Itoa(d \div 10), DigitChars[(d % 10) + 1])

\* The writes of a label: chars[i] at (x + i - 1, y) where that is in bounds;
\* the age of the cell is left alone.
RECURSIVE PaintLabel(_, _, _, _, _, _)
PaintLabel(buf, ctx, chars, i, x, y) ==
    IF i > Len(chars) THEN buf
    ELSE IF inBounds(ctx.width, ctx.height, x + i - 1, y)
         THEN PaintLabel([buf EXCEPT ![y + 1][x + i] =
                              [@ EXCEPT !.kind = "label", !.char = chars[i]]],
                         ctx, chars, i + 1, x, y)
         ELSE PaintLabel(buf, ctx, chars, i + 1, x, y)

NiceSteps == <<1, 5, 10, 15, 20, 25, 50, 100, 200, 500>>

\* maxLabels: int(r / (3 * (r / range))), at least 1; r = 0 divides zero by zero,
\* and the conversion of NaN is below 1 on every platform.
MaxLabels(r, rng) ==
    IF r = 0 THEN 1
    ELSE IF rng \div MinLabelSpacing < 1 THEN 1 ELSE rng \div MinLabelSpacing

\* labelStepNM: the first nice step with range / step <= maxLabels, else the last.
LabelStep(r, rng) ==
    LET fits == {i \in 1..Len(NiceSteps) : rng <= MaxLabels(r, rng) * NiceSteps[i]}
    IN  IF fits = {} THEN NiceSteps[Len(NiceSteps)]
        ELSE NiceSteps[CHOOSE i \in fits : \A j \in fits : i <= j]

\* The loop of renderDistanceLabels from the k-th label on (d = k * step < range);
\* a grid without rows has no cell to write.
RECURSIVE DistanceLabels(_, _, _, _, _)
DistanceLabels(buf, ctx, rng, step, k) ==
    IF k * step >= rng \/ Len(buf) = 0 THEN buf
    ELSE LET d == k * step
             x == ctx.cx
             y == ctx.cy - TruncDiv(d * ctx.r, rng * AspectInv)
         IN  DistanceLabels(PaintLabel(buf, ctx, Itoa(d), 1, x, y), ctx, rng, step, k + 1)

renderDistanceLabels(buf, ctx, rng) ==
    DistanceLabels(buf, ctx, rng, LabelStep(ctx.r, rng), 1)

\* The cell the arm writes for the sample of age a.
ArmCell(a) == [char |-> " ", kind |-> "sweep", sweepAge |-> a]

\* Mutant: every sample of the arm is written with age 0, as in an earlier revision.
ArmAgeZero(j) == 0

\* c.sweepAge = int(interp * 10) for the j-th sample, j = 0..10.
ArmAge(j) == InterpAge[j + 1]

\* The n-th sample of the loops of renderSweepArm, flattened (l = n / 11, j = n % 11):
\* the offset from the center it writes and the age it writes there.
ArmSample(sweep, n) ==
    LET l == n \div ArmSamples
        j == n % ArmSamples
        theta == (sweep - ArmBack) + ((j * ArmBack) \div (ArmSamples - 1))
    IN  [dx |-> TruncDiv(l * Sin1000(theta), 1000),
         dy |-> -TruncDiv(l * Cos1000(theta), 1000 * AspectInv),
         age |-> ArmAge(j)]

\* The samples of one repaint in order, for a radius and a sweep angle.
ArmSeq(r, sweep) == [n \in 1..((r + 1) * ArmSamples) |-> ArmSample(sweep, n - 1)]

\* The sweep angles a tick can set, the radii of the terminal sizes explored, and
\* the samples of the arm for each of them, tabulated once.
SweepAngles == {k * SweepStep : k \in 0..((TwoPi - 1) \div SweepStep)}
ArmRadii == {r \in {Context(s[1] \div 2, s[2]).r : s \in Sizes \cup EdgeSizes} : r >= 0}
ArmTable == [r \in ArmRadii |-> [a \in SweepAngles |-> ArmSeq(r, a)]]

\* The writes of renderSweepArm from the n-th sample on.
RECURSIVE ArmPaint(_, _, _, _)
ArmPaint(buf, ctx, samples, n) ==
    IF n > Len(samples) THEN buf
    ELSE LET x == ctx.cx + samples[n].dx
             y == ctx.cy + samples[n].dy
         IN  IF inBounds(Len(buf[1]), Len(buf), x, y)
             THEN ArmPaint([buf EXCEPT ![y + 1][x + 1] = ArmCell(samples[n].age)],
                           ctx, samples, n + 1)
             ELSE ArmPaint(buf, ctx, samples, n + 1)

\* for l := 0; l <= int(ctx.r); l++ runs no iteration for a negative radius.
renderSweepArm(buf, ctx, sweep) ==
    IF ctx.r < 0 THEN buf ELSE ArmPaint(buf, ctx, ArmTable[ctx.r][sweep], 1)

\* posX, posY of renderPlanes for plane p.
PlanePos(p, ctx, rng, offset) ==
    LET num == p.DistanceFromObserver * (ctx.maxR - PlaneMargin)
        displayBearing == p.BearingFromObserver - offset
    IN  [x |-> ctx.cx + TruncDiv(num * Sin1000(displayBearing), rng * 1000),
         y |-> ctx.cy - TruncDiv(num * Cos1000(displayBearing), rng * 1000 * AspectInv)]

\* Mutant: the distance of the aircraft is not compared with the range at the repaint.
PlanePaintedAnyRange(p, ctx, rng, offset, vis) ==
    LET pos == PlanePos(p, ctx, rng, offset)
        dx == pos.x - ctx.cx
        dy == pos.y - ctx.cy
    IN  /\ p.FlightCode \in vis
        /\ inBounds(ctx.width, ctx.height, pos.x, pos.y)
        /\ ctx.r > 0
        /\ dx * dx + dy * dy < ctx.r * ctx.r

\* Whether renderPlanes writes the glyph of p: member of the sweep set, within
\* range, in bounds and math.Sqrt(dx*dx+dy*dy) < r.
PlanePainted(p, ctx, rng, offset, vis) ==
    LET pos == PlanePos(p, ctx, rng, offset)
        dx == pos.x - ctx.cx
        dy == pos.y - ctx.cy
    IN  /\ p.FlightCode \in vis
        /\ ~(p.DistanceFromObserver > rng)
        /\ inBounds(ctx.width, ctx.height, pos.x, pos.y)
        /\ ctx.r > 0
        /\ dx * dx + dy * dy < ctx.r * ctx.r

\* Mutant: the glyph is written without resetting the age, as in an earlier revision.
PlaneCellKeepAge(c, p) == [c EXCEPT !.kind = "plane", !.char = getPlaneSymbol(p.Heading)]

\* The cell renderPlanes writes over cell c for plane p.
PlaneCell(c, p) == [char |-> getPlaneSymbol(p.Heading), kind |-> "plane", sweepAge |-> 0]

RECURSIVE PlanePaint(_, _, _, _, _, _, _)
PlanePaint(buf, ctx, ps, i, rng, offset, vis) ==
    IF i > Len(ps) THEN buf
    ELSE IF PlanePainted(ps[i], ctx, rng, offset, vis)
         THEN LET pos == PlanePos(ps[i], ctx, rng, offset)
              IN  PlanePaint([buf EXCEPT ![pos.y + 1][pos.x + 1] = PlaneCell(@, ps[i])],
                             ctx, ps, i + 1, rng, offset, vis)
         ELSE PlanePaint(buf, ctx, ps, i + 1, rng, offset, vis)

renderPlanes(buf, ctx, ps, rng, offset, vis) == PlanePaint(buf, ctx, ps, 1, rng, offset, vis)

\* The glyphs renderPlanes writes: the flight code and the cell of each.
PlaneWrites(ctx, ps, rng, offset, vis) ==
    {[code |-> ps[i].FlightCode,
      x |-> PlanePos(ps[i], ctx, rng, offset).x,
      y |-> PlanePos(ps[i], ctx, rng, offset).y] :
        i \in {j \in 1..Len(ps) : PlanePainted(ps[j], ctx, rng, offset, vis)}}

\* tickMarks (0, 90, 180, 270 degrees in mrad) and tickLabels of renderBearingLabels.
TickMarks == <<0, HalfPi, Pi, Pi + HalfPi>>
TickLabels == << <<"0">>, <<"9", "0">>, <<"1", "8", "0">>, <<"2", "7", "0">> >>

RECURSIVE BearingLabels(_, _, _, _)
BearingLabels(buf, ctx, offset, i) ==
    IF i > Len(TickMarks) THEN buf
    ELSE LET phi == TickMarks[i] - offset
             x == ctx.cx + TruncDiv((ctx.r + BearingLabelGap) * Sin1000(phi), 1000)
             y == ctx.cy - TruncDiv((ctx.r + BearingLabelGap) * Cos1000(phi), 1000 * AspectInv)
         IN  BearingLabels(PaintLabel(buf, ctx, TickLabels[i], 1, x, y), ctx, offset, i + 1)

renderBearingLabels(buf, ctx, offset) == BearingLabels(buf, ctx, offset, 1)

\* Mutant: the guard without the tests of the grid itself.
TooSmallBySizeOnly(buf, w, h) == w < 5 \/ h < 5

\* The guard of renderRadar: "Too small".
TooSmall(buf, w, h) ==
    \/ w < 5
    \/ h < 5
    \/ Len(buf) < 5
    \/ Len(buf[1]) < 5

\* Mutant: the background buckets of the earlier revision (main.go).
BackgroundOld(age) ==
    IF age = 0 THEN "brightGreen"
    ELSE IF age > 0 /\ age <= 3 THEN "mediumGreen"
    ELSE IF age > 3 /\ age <= 12 THEN "dimGreen"
    ELSE "none"

\* The background the output loop gives a cell that is not a ring cell: the first
\* case of the switch on c.sweepAge that holds, no background when none does.
Background(age) ==
    IF age <= 2 THEN "brightGreen"
    ELSE IF age > 2 /\ age <= 7 THEN "mediumGreen"
    ELSE IF age > 3 /\ age <= 12 THEN "dimGreen"
    ELSE "none"

\* What the output loop of renderRadar shows for cell c.  The loop ranges over the
\* rows by value (for _, c := range row): at age 99 it blanks its copy c, which is
\* what this frame shows, and the cell of the buffer is not written.
ShownCell(c) ==
    IF c.kind = "plane" /\ c.sweepAge = 99
    THEN [c EXCEPT !.kind = "blank", !.char = " "]
    ELSE c

\* Mutant: the output loop writes the blanked cell back to the buffer.
OutputLoopWriteBack(buf) ==
    [y \in DOMAIN buf |-> [x \in DOMAIN buf[y] |-> ShownCell(buf[y][x])]]

\* The buffer after the output loop of renderRadar: unchanged.
OutputLoop(buf) == buf

\* The buffer after renderRadar(w, h).
renderRadar(buf, w, h, ps, sweep, offset, rng, vis) ==
    IF TooSmall(buf, w, h) THEN buf
    ELSE LET ctx == Context(w, h)
             b0 == ClearTransient(buf)
             b1 == renderDistanceLabels(b0, ctx, rng)
             b2 == renderSweepArm(b1, ctx, sweep)
             b3 == renderPlanes(b2, ctx, ps, rng, offset, vis)
             b4 == renderBearingLabels(b3, ctx, offset)
         IN  OutputLoop(b4)

\* The rows renderRadar(w, h) indexes without a cell (m.buffer[0], for its length):
\* by the guard once the first three tests failed, by the arm for every sample.
RadarRows(buf, w, h) ==
    IF w < 5 \/ h < 5 THEN {}
    ELSE IF TooSmall(buf, w, h) THEN (IF Len(buf) < 5 THEN {} ELSE {0})
    ELSE {0}

\* The cells a label indexes: those of its characters that pass inBounds.
LabelCells(ctx, chars, x, y) ==
    {[x |-> x + i - 1, y |-> y] :
        i \in {j \in 1..Len(chars) : inBounds(ctx.width, ctx.height, x + j - 1, y)}}

\* The cells renderSweepArm indexes: the samples that pass inBounds for the size of
\* the grid itself.
ArmCells(buf, ctx, sweep) ==
    IF ctx.r < 0 \/ Len(buf) = 0 THEN {}
    ELSE LET samples == ArmTable[ctx.r][sweep]
         IN  {[x |-> ctx.cx + samples[n].dx, y |-> ctx.cy + samples[n].dy] :
                 n \in {k \in 1..Len(samples) :
                            inBounds(Len(buf[1]), Len(buf), ctx.cx + samples[k].dx,
                                     ctx.cy + samples[k].dy)}}

\* The cells renderRadar(w, h) indexes after its guard: every cell of the grid by
\* the clearing loop and the output loop, and the cells the four painters write.
RadarCells(buf, w, h, ps, sweep, offset, rng, vis) ==
    IF TooSmall(buf, w, h) THEN {}
    ELSE LET ctx == Context(w, h)
             step == LabelStep(ctx.r, rng)
             grid == UNION {{[x |-> x - 1, y |-> y - 1] : x \in DOMAIN buf[y]} :
                               y \in DOMAIN buf}
             dist == UNION {LabelCells(ctx, Itoa(k * step), ctx.cx,
                                       ctx.cy - TruncDiv(k * step * ctx.r, rng * AspectInv)) :
                               k \in 1..((rng - 1) \div step)}
             glyphs == {[x |-> g.x, y |-> g.y] : g \in PlaneWrites(ctx, ps, rng, offset, vis)}
             marks == UNION {LabelCells(ctx, TickLabels[i],
                                 ctx.cx + TruncDiv((ctx.r + BearingLabelGap)
                                                   * Sin1000(TickMarks[i] - offset), 1000),
                                 ctx.cy - TruncDiv((ctx.r + BearingLabelGap)
                                                   * Cos1000(TickMarks[i] - offset),
                                                   1000 * AspectInv)) :
                                i \in 1..Len(TickMarks)}
         IN  grid \cup dist \cup ArmCells(buf, ctx, sweep) \cup glyphs \cup marks

\* View, called by the runtime after Init and after every Update.
View ==
    /\ pc = "view"
    /\ pc' = "idle"
    /\ buffer' = IF width = 0 THEN buffer
                 ELSE renderRadar(buffer, width \div 2, height, planes, sweepAngle,
                                  northOffset, radarRange, visiblePlanes)
    /\ painted' = IF width = 0 \/ TooSmall(buffer, width \div 2, height) THEN {}
                  ELSE PlaneWrites(Context(width \div 2, height), planes, radarRange,
                                   northOffset, visiblePlanes)
    /\ UNCHANGED <<lastMsg, width, height, sweepAngle, northOffset, radarRange, planes,
                   visiblePlanes, rows, tableLoaded, initialPlanesLoaded, showModal,
                   modalFocused, focus, ticks, keys, resizes, fetchCount, swept, probe,
                   routeInfoCache, now, sess, sinceSwept, pendingTicks>>

-----------------------------------------------------------------------------
(* The program *)

Next ==
    \/ View
    \/ KeyMsg
    \/ handleWindowResize
    \/ handleTickMsg

Spec == Init /\ [][Next]_vars

\* The program while no key is pressed, over more ticks.
\* Several keys in a row (the modal opened, typed into, closed), window-size
\* messages and a few ticks.
ModalKeyMsg == KeyMsgOf(KeyNames, MaxModalKeys)

ModalTick == TickMsg(MaxModalTicks)

ModalNext == View \/ ModalKeyMsg \/ handleWindowResize \/ ModalTick

ModalSpec == Init /\ [][ModalNext]_vars

\* Window-size messages of every size of EdgeSizes, a key and a few ticks.
EdgeResize == handleWindowResizeOf(EdgeSizes)

EdgeTick == TickMsg(MaxEdgeTicks)

EdgeNext == View \/ KeyMsg \/ EdgeResize \/ EdgeTick

EdgeSpec == Init /\ [][EdgeNext]_vars

\* Two revolutions and one tick, no key pressed: the range and the north offset are
\* fixed, the list changes only where a refresh returns another one.
RoundTick == TickMsg(MaxRoundTicks)

RoundNext == View \/ handleWindowResize \/ RoundTick

RoundSpec == Init /\ [][RoundNext]_vars

\* The keys "=" and "-" only, pressed up to MaxRangeKeys times.
RangeKeys == {"=", "-"}

RangeKeyMsg == KeyMsgOf(RangeKeys, MaxRangeKeys)

RangeNext == View \/ RangeKeyMsg \/ handleWindowResize

RangeSpec == Init /\ [][RangeNext]_vars

LongTick == TickMsg(MaxLongTicks)

LongNext ==
    \/ View
    \/ handleWindowResize
    \/ LongTick

LongSpec == Init /\ [][LongNext]_vars

-----------------------------------------------------------------------------
(* withinSweep applied to inputs drawn from bounded sets *)

ProbeOffsets == {k * OffsetStep : k \in (-MaxOffsetSteps)..MaxOffsetSteps}
ProbeBearings == {k * BearingGrain : k \in 0..((TwoPi - 1) \div BearingGrain)}

SweepInit ==
    /\ InitModel
    /\ InitFetchLayer
    /\ probe \in [sweepAngle : SweepAngles, northOffset : ProbeOffsets,
                  bearing : ProbeBearings, applied : {FALSE}, result : {FALSE}]

ApplyWithinSweep ==
    /\ ~probe.applied
    /\ probe' = [probe EXCEPT !.applied = TRUE,
                              !.result = withinSweep(probe.bearing, probe.sweepAngle,
                                                     SweepWidth, probe.northOffset)]
    /\ UNCHANGED <<pc, lastMsg, width, height, sweepAngle, northOffset, radarRange,
                   buffer, planes, visiblePlanes, rows, tableLoaded, initialPlanesLoaded,
                   showModal, modalFocused, focus, ticks, keys, resizes, fetchCount, swept,
                   painted, routeInfoCache, now, sess, sinceSwept, pendingTicks>>

SweepNext == ApplyWithinSweep

SweepSpec == SweepInit /\ [][SweepNext]_vars

\* SetPlaneLocationDetails applied directly: the observer at the default location
\* (54 N, 2 W to the degree), on the equator or in the south, the aircraft at any
\* latitude of the grain and up to MaxLonDiff degrees east or west of the observer.
ObserverLats == {-60, 0, 54}
ObserverLon == -2
PlaneLats == {k * LatGrain : k \in (-(90 \div LatGrain))..(90 \div LatGrain)}
PlaneLons == {ObserverLon + d : d \in (-MaxLonDiff)..MaxLonDiff}

BearingInit ==
    /\ InitModel
    /\ InitFetchLayer
    /\ probe \in [lat : ObserverLats, lon : {ObserverLon}, planeLat : PlaneLats,
                  planeLon : PlaneLons, applied : {FALSE}, bearing : {0}]

ApplySetPlaneLocationDetails ==
    /\ ~probe.applied
    /\ probe' = [probe EXCEPT !.applied = TRUE,
                              !.bearing = Bearing(probe.lat, probe.lon,
                                                  probe.planeLat, probe.planeLon)]
    /\ UNCHANGED <<pc, lastMsg, width, height, sweepAngle, northOffset, radarRange,
                   buffer, planes, visiblePlanes, rows, tableLoaded, initialPlanesLoaded,
                   showModal, modalFocused, focus, ticks, keys, resizes, fetchCount, swept,
                   painted, routeInfoCache, now, sess, sinceSwept, pendingTicks>>

BearingNext == ApplySetPlaneLocationDetails

BearingSpec == BearingInit /\ [][BearingNext]_vars

\* getPlaneSymbol applied directly: the heading of the aircraft is any whole number
\* of degrees up to MaxHeading (the limits of the cases are whole numbers, so a
\* fractional heading falls with the whole number below it).
Headings == 0..MaxHeading

GlyphInit ==
    /\ InitModel
    /\ InitFetchLayer
    /\ probe \in [heading : Headings, applied : {FALSE}, glyph : {""}]

ApplyGetPlaneSymbol ==
    /\ ~probe.applied
    /\ probe' = [probe EXCEPT !.applied = TRUE, !.glyph = getPlaneSymbol(probe.heading)]
    /\ UNCHANGED <<pc, lastMsg, width, height, sweepAngle, northOffset, radarRange,
                   buffer, planes, visiblePlanes, rows, tableLoaded, initialPlanesLoaded,
                   showModal, modalFocused, focus, ticks, keys, resizes, fetchCount, swept,
                   painted, routeInfoCache, now, sess, sinceSwept, pendingTicks>>

GlyphNext == ApplyGetPlaneSymbol

GlyphSpec == GlyphInit /\ [][GlyphNext]_vars

-----------------------------------------------------------------------------
(* Concurrent sessions inside GetLocalFlights.  wish serves every SSH session   *)
(* with its own tea.Program, whose Update runs on a goroutine of that session;  *)
(* the steps below are those of one session's goroutine between two accesses    *)
(* of the package-level map.                                                    *)

modelVars == <<pc, lastMsg, width, height, sweepAngle, northOffset, radarRange, buffer,
               planes, visiblePlanes, rows, tableLoaded, initialPlanesLoaded, showModal,
               modalFocused, focus, ticks, keys, resizes, fetchCount, swept, painted,
               probe, sinceSwept, pendingTicks>>

\* The session record after the plane at index i got route r: the loop goes on to
\* the next plane, or GetLocalFlights returns and GetPlanes gives the list to the model.
NextPlane(ss, r) ==
    LET routes == Append(ss.routes, r)
    IN  IF ss.i < Len(ss.list)
        THEN [ss EXCEPT !.pc = "check", !.i = @ + 1, !.routes = routes]
        ELSE [ss EXCEPT !.pc = "idle", !.i = 0, !.routes = routes, !.planes = ss.list]

\* GetLocalFlights up to the loop: the list is decoded, or log.Fatal ends the process
\* and with it every session.
StartFetch(s) ==
    /\ sess[s].pc = "idle"
    /\ sess[s].fetches < MaxSessionFetches
    /\ \E res \in SessionFetchOutcomes :
           IF ~res.ok
           THEN sess' = [t \in Sessions |-> [sess[t] EXCEPT !.pc = "fatal"]]
           ELSE IF res.list = << >>
           THEN sess' = [sess EXCEPT ![s].fetches = @ + 1, ![s].planes = << >>,
                                     ![s].routes = << >>]
           ELSE sess' = [sess EXCEPT ![s].fetches = @ + 1, ![s].pc = "check",
                                     ![s].list = res.list, ![s].i = 1,
                                     ![s].routes = << >>]
    /\ UNCHANGED <<modelVars, routeInfoCache, now>>

\* Lines 80-85 of SetFlightRouteInfo: the reads of the map; a fresh entry is served.
CheckCache(s) ==
    /\ sess[s].pc = "check"
    /\ LET code == sess[s].list[sess[s].i].FlightCode
       IN  sess' = [sess EXCEPT ![s] =
               IF CacheHit(routeInfoCache, code, now)
               THEN [NextPlane(sess[s], routeInfoCache[code].route) EXCEPT !.read = TRUE]
               ELSE [sess[s] EXCEPT !.pc = "lookup", !.read = TRUE]]
    /\ UNCHANGED <<modelVars, routeInfoCache, now>>

\* Lines 87-131: the request, the read of the body and the decoding.
Lookup(s) ==
    /\ sess[s].pc = "lookup"
    /\ LET code == sess[s].list[sess[s].i].FlightCode
       IN  \E outcome \in LookupOutcomes :
               sess' = [sess EXCEPT ![s] =
                   IF LookupStores(outcome)
                   THEN [sess[s] EXCEPT !.pc = "store",
                                        !.pending = LookupRoute(code, outcome)]
                   ELSE NextPlane(sess[s], LookupRoute(code, outcome))]
    /\ UNCHANGED <<modelVars, routeInfoCache, now>>

\* Lines 108-111 and 133-136: the write of the map.
StoreRoute(s) ==
    /\ sess[s].pc = "store"
    /\ LET code == sess[s].list[sess[s].i].FlightCode
       IN  /\ routeInfoCache' = CachePut(routeInfoCache, code, sess[s].pending, now)
           /\ sess' = [sess EXCEPT ![s] =
                  [NextPlane(sess[s], sess[s].pending) EXCEPT !.wrote = TRUE]]
    /\ UNCHANGED <<modelVars, now>>

\* Two goroutines are at an access of the map at the same time, one of them at a write.
MapRace ==
    \E s, t \in Sessions :
        /\ s # t
        /\ sess[s].pc = "store"
        /\ sess[t].pc \in {"check", "store"}

\* The map is not safe for concurrent use: when the accesses overlap the runtime may
\* detect it and end the process ("concurrent map read and map write"); otherwise the
\* accesses take effect in some order (CheckCache and StoreRoute above).
MapFault ==
    /\ MapRace
    /\ sess' = [t \in Sessions |-> [sess[t] EXCEPT !.pc = "fatal"]]
    /\ UNCHANGED <<modelVars, routeInfoCache, now>>

\* A minute of wall-clock time passes.
MinutePasses ==
    /\ now < MaxNow
    /\ \A s \in Sessions : sess[s].pc # "fatal"
    /\ now' = now + 1
    /\ UNCHANGED <<modelVars, routeInfoCache, sess>>

SessionsNext ==
    \/ \E s \in Sessions : StartFetch(s)
    \/ \E s \in Sessions : CheckCache(s)
    \/ \E s \in Sessions : Lookup(s)
    \/ \E s \in Sessions : StoreRoute(s)
    \/ MapFault
    \/ MinutePasses

SessionsSpec == Init /\ [][SessionsNext]_vars

-----------------------------------------------------------------------------
(* SetFlightRouteInfo on one goroutine: calls for the flight codes of RouteCodes, *)
(* each ending in one of LookupOutcomes, with minutes passing between them.        *)

RouteCodes == {"BAW1", "EZY2"}

RouteInit ==
    /\ InitModel
    /\ InitFetchLayer
    /\ probe = [code |-> "", outcome |-> "", lookedUp |-> FALSE, route |-> EmptyRoute,
                applied |-> FALSE]

\* One call SetFlightRouteInfo(p) for an aircraft with this flight code whose lookup,
\* if one is made, ends in this outcome.
CallSetFlightRouteInfo(code, outcome) ==
    LET r == SetFlightRouteInfo(routeInfoCache, code, outcome, now)
        hit == CacheHit(routeInfoCache, code, now)
    IN  /\ routeInfoCache' = r.cache
        /\ probe' = [code |-> code, outcome |-> IF hit THEN "" ELSE outcome,
                     lookedUp |-> ~hit, route |-> r.route, applied |-> TRUE]
        /\ UNCHANGED <<pc, lastMsg, width, height, sweepAngle, northOffset, radarRange,
                       buffer, planes, visiblePlanes, rows, tableLoaded,
                       initialPlanesLoaded, showModal, modalFocused, focus, ticks, keys,
                       resizes, fetchCount, swept, painted, now, sess, sinceSwept,
                       pendingTicks>>

ApplySetFlightRouteInfo ==
    \E code \in RouteCodes, outcome \in LookupOutcomes : CallSetFlightRouteInfo(code, outcome)

RouteNext == ApplySetFlightRouteInfo \/ MinutePasses

RouteSpec == RouteInit /\ [][RouteNext]_vars

-----------------------------------------------------------------------------
(* Steps and cells, for stating the properties *)

\* A step in which Update handles a message of this kind.
UpdateStep(kind) == pc = "idle" /\ pc' # "idle" /\ lastMsg' = kind

\* A step in which handleTickMsg runs to its end.
TickDone == UpdateStep("tick") /\ pc' = "view"

\* A step in which View repaints.
ViewStep == pc = "view" /\ pc' = "idle"

\* The coordinates <<y, x>> of the cells of a buffer.
Cells(buf) == UNION {{<<y, x>> : x \in DOMAIN buf[y]} : y \in DOMAIN buf}

\* The north-offset-corrected bearing, in [0, 2 pi).
Corrected(bearing, offset) == (bearing - offset) % TwoPi

\* The forward angular distance from a corrected bearing b to the arm, in [0, 2 pi).
Forward(sweep, b) == (sweep - b + TwoPi) % TwoPi

-----------------------------------------------------------------------------
(* C1 *)

\* C1: for every sweep angle in [0, 2 pi) and every north offset, withinSweep is true
\* exactly when ((sweepAngle - b + 2 pi) mod 2 pi) <= 0.5, b being the corrected
\* bearing; an aircraft 0.01 rad behind the arm is a member, one 0.01 rad ahead is not.
C1_OneSided ==
    probe.applied =>
        LET b == Corrected(probe.bearing, probe.northOffset)
        IN  /\ probe.result <=> (Forward(probe.sweepAngle, b) <= SweepWidth)
            /\ b = (probe.sweepAngle - 10) % TwoPi => probe.result
            /\ b = (probe.sweepAngle + 10) % TwoPi => ~probe.result

\* Just after a wrap, with a north offset, an aircraft 0.01 rad behind the arm is a member.
C1_Witness ==
    /\ probe.applied
    /\ probe.sweepAngle = 0
    /\ probe.northOffset = OffsetStep
    /\ Corrected(probe.bearing, probe.northOffset) = TwoPi - 10
    /\ probe.result

-----------------------------------------------------------------------------
(* C2 *)

\* The aircraft of list ps that are within range and in the sweep window and whose
\* flight code is not in the membership set vis, in the order of the list.
RECURSIVE Entering(_, _, _, _, _)
Entering(ps, rng, sweep, offset, vis) ==
    IF ps = << >> THEN << >>
    ELSE LET p == Head(ps)
             rest == Entering(Tail(ps), rng, sweep, offset, vis)
         IN  IF /\ p.DistanceFromObserver <= rng
                /\ Forward(sweep, Corrected(p.BearingFromObserver, offset)) <= SweepWidth
                /\ p.FlightCode \notin vis
             THEN <<p>> \o rest
             ELSE rest

\* C2: on a tick, UpdatePlaneRow is invoked exactly for the aircraft that are within
\* range and in the sweep window on this tick and whose identifier was not in the
\* membership set left by the previous tick; an aircraft that stays a member raises
\* no further event.
C2_EdgeTriggered ==
    [][TickDone =>
          swept' = Entering(planes', radarRange, sweepAngle', northOffset, visiblePlanes)]_vars

\* In the second revolution an aircraft that entered on the tick before stays a member
\* and raises no event.
C2_Witness ==
    /\ lastMsg = "tick"
    /\ ticks = 64
    /\ "BAW1" \in visiblePlanes
    /\ Len(rows) > 0
    /\ swept = << >>

-----------------------------------------------------------------------------
(* C3 *)

\* C3: after every tick, the membership set holds only identifiers of listed aircraft
\* with distance <= radarRange, and the listing holds no row whose identifier belongs
\* to an aircraft that is absent from the list or has distance > radarRange.
C3_DroppedSameTick ==
    (lastMsg = "tick" /\ pc # "fatal") =>
        /\ \A code \in visiblePlanes :
               \E i \in 1..Len(planes) :
                   /\ planes[i].FlightCode = code
                   /\ planes[i].DistanceFromObserver <= radarRange
        /\ \A r \in 1..Len(rows) :
               /\ \E i \in 1..Len(planes) : planes[i].FlightCode = rows[r][1]
               /\ \A i \in 1..Len(planes) :
                      planes[i].FlightCode = rows[r][1] =>
                          planes[i].DistanceFromObserver <= radarRange

-----------------------------------------------------------------------------
(* C4 *)

\* C4: in every reachable state the sweep angle satisfies 0 <= sweepAngle < 2 pi.
C4_AngleInTurn == 0 <= sweepAngle /\ sweepAngle < TwoPi

\* The angle right after the wrap of the 63rd tick.
C4_Witness == ticks = 63 /\ lastMsg = "tick" /\ sweepAngle = 0

-----------------------------------------------------------------------------
(* C5 *)

\* C5 as stated: every tick sets the angle to (angle + 0.1) mod 2 pi, also on the
\* tick where the angle wraps.
C5_AdvanceModulo ==
    [][UpdateStep("tick") => sweepAngle' = (sweepAngle + SweepStep) % TwoPi]_vars

\* C5 as amended: every tick sets the angle to angle + 0.1 if that is below 2 pi,
\* and to 0 otherwise.
C5_AdvanceOrReset ==
    [][UpdateStep("tick") =>
          sweepAngle' = IF sweepAngle + SweepStep < TwoPi
                        THEN sweepAngle + SweepStep ELSE 0]_vars

\* The first tick after a wrap: the angle is one step, not one step plus the overshoot.
C5_Witness == ticks = 64 /\ lastMsg = "tick" /\ sweepAngle = SweepStep

-----------------------------------------------------------------------------
(* C6 *)

\* C6: a tick calls GetPlanes if and only if it wraps the sweep angle; besides, only
\* the first window-size message calls it; no other step replaces the aircraft list.
C6_RefreshOnWrap ==
    [][/\ UpdateStep("tick") => (fetchCount' # fetchCount <=> sweepAngle' < sweepAngle)
       /\ UpdateStep("resize") => (fetchCount' # fetchCount <=> resizes = 0)
       /\ fetchCount' # fetchCount =>
              /\ fetchCount' = fetchCount + 1
              /\ UpdateStep("tick") \/ UpdateStep("resize")
       /\ fetchCount' = fetchCount => planes' = planes]_vars

\* The list was loaded by the first window-size message and refreshed by the wrap.
C6_Witness ==
    /\ lastMsg = "tick"
    /\ ticks = 63
    /\ sweepAngle = 0
    /\ resizes = 2
    /\ fetchCount = 2

-----------------------------------------------------------------------------
(* C7 *)

\* C7: every tick increases the age of every cell by exactly 1 if it is below 100 and
\* leaves it at 100 otherwise; every age is in [0, 100] in every reachable state; and
\* only a repaint changes an age otherwise, so a cell that is not painted keeps aging
\* up to exactly 100.
C7_AgingClamped ==
    /\ [](\A c \in Cells(buffer) : buffer[c[1]][c[2]].sweepAge \in 0..MaxAge)
    /\ [][/\ TickDone =>
                 \A c \in Cells(buffer) :
                     buffer'[c[1]][c[2]].sweepAge =
                         IF buffer[c[1]][c[2]].sweepAge < MaxAge
                         THEN buffer[c[1]][c[2]].sweepAge + 1 ELSE MaxAge
          /\ ViewStep =>
                 \A c \in Cells(buffer) :
                     \/ buffer'[c[1]][c[2]].sweepAge = buffer[c[1]][c[2]].sweepAge
                     \/ buffer'[c[1]][c[2]].sweepAge < 10
          /\ UpdateStep("key") => buffer' = buffer]_vars

\* After a tick, a cell that was never painted is at the ceiling and a cell the arm
\* left 60 ticks ago has age 60.
C7_Witness ==
    /\ lastMsg = "tick"
    /\ pc = "view"
    /\ \E c \in Cells(buffer) : buffer[c[1]][c[2]].sweepAge = MaxAge
    /\ \E c \in Cells(buffer) : buffer[c[1]][c[2]].sweepAge = 60

-----------------------------------------------------------------------------
(* C8 *)

\* Whether the last View painted the radar.
Rendered == pc = "idle" /\ width # 0 /\ ~TooSmall(buffer, width \div 2, height)

\* Every aircraft the aircraft painter wrote in the last repaint has age 0 in its cell.
PaintedPlanesFresh ==
    LET ctx == Context(width \div 2, height)
    IN  \A i \in 1..Len(planes) :
            PlanePainted(planes[i], ctx, radarRange, northOffset, visiblePlanes) =>
                LET pos == PlanePos(planes[i], ctx, radarRange, northOffset)
                IN  /\ buffer[pos.y + 1][pos.x + 1].sweepAge = 0
                    /\ buffer[pos.y + 1][pos.x + 1].kind \in {"plane", "label"}

-----------------------------------------------------------------------------
(* C9 *)

\* The clearing step applied to the buffer: every cell that is not a plane gets char
\* ' ' and kind blank, every plane cell keeps char and kind, every cell keeps its age.
ClearKeepsPlanes ==
    LET cleared == ClearTransient(buffer)
    IN  \A c \in Cells(buffer) :
            LET old == buffer[c[1]][c[2]]
                new == cleared[c[1]][c[2]]
            IN  /\ new.sweepAge = old.sweepAge
                /\ old.kind = "plane" => new.kind = "plane" /\ new.char = old.char
                /\ old.kind # "plane" => new.kind = "blank" /\ new.char = " "

\* C9: the clearing step blanks every cell that is not a plane and leaves the plane
\* cells and all ages alone; across a repaint a plane cell never becomes blank, and
\* a plane cell the repaint did not write is the cell it was.
C9_ClearTransient ==
    /\ []ClearKeepsPlanes
    /\ [][ViewStep =>
              \A c \in Cells(buffer) :
                  LET old == buffer[c[1]][c[2]]
                      new == buffer'[c[1]][c[2]]
                  IN  /\ old.kind = "plane" => new.kind # "blank"
                      /\ new.kind = "blank" => new.char = " " /\ new.sweepAge = old.sweepAge
                      /\ (new.kind = "plane" /\ new.sweepAge # 0) => new = old]_vars

\* A plane glyph that has persisted across the repaints of ten ticks or more, beside
\* a cell the arm wrote less than ten ticks ago and a later repaint cleared.
C9_Witness ==
    /\ pc = "idle"
    /\ \E c \in Cells(buffer) :
           buffer[c[1]][c[2]].kind = "plane" /\ buffer[c[1]][c[2]].sweepAge >= 10
    /\ \E c \in Cells(buffer) :
           buffer[c[1]][c[2]].kind = "blank" /\ buffer[c[1]][c[2]].sweepAge < 10

-----------------------------------------------------------------------------
(* C10 *)

\* C10: after the repaint that sees a plane cell at age 99 or more, the cell of the grid
\* is blank, so no grid cell has kind plane with age 99 or 100 once a repaint is done.
C10_PlaneReverts ==
    pc = "idle" =>
        \A c \in Cells(buffer) :
            ~(buffer[c[1]][c[2]].kind = "plane" /\ buffer[c[1]][c[2]].sweepAge >= 99)

-----------------------------------------------------------------------------
(* C11 *)

\* C11: a tick, also one that replaces the aircraft list, leaves kind and char of every
\* cell alone and ages the plane cells by 1 (up to the ceiling); after the tick no row
\* is left whose flight code is not in the list; and a repaint never clears a plane
\* cell, it can only be written over by the arm, a label or the aircraft painter.
C11_RefreshKeepsGrid ==
    [][/\ TickDone =>
              /\ \A c \in Cells(buffer) :
                     LET old == buffer[c[1]][c[2]]
                         new == buffer'[c[1]][c[2]]
                     IN  /\ new.kind = old.kind
                         /\ new.char = old.char
                         /\ old.kind = "plane" =>
                                new.sweepAge = Min(old.sweepAge + 1, MaxAge)
              /\ \A r \in 1..Len(rows') :
                     \E i \in 1..Len(planes') : planes'[i].FlightCode = rows'[r][1]
       /\ ViewStep =>
              \A c \in Cells(buffer) :
                  buffer[c[1]][c[2]].kind = "plane" =>
                      buffer'[c[1]][c[2]].kind \in {"plane", "sweep", "label"}]_vars

\* The list went from two aircraft to none at the wrap: the rows are gone, and the
\* glyph painted 58 ticks before the wrap is still a plane cell, one tick older.
C11_Witness ==
    /\ lastMsg = "tick"
    /\ ticks = 64
    /\ fetchCount = 2
    /\ planes = << >>
    /\ rows = << >>
    /\ \E c \in Cells(buffer) :
           /\ buffer[c[1]][c[2]].kind = "plane"
           /\ buffer[c[1]][c[2]].char = "^"
           /\ buffer[c[1]][c[2]].sweepAge = 59

-----------------------------------------------------------------------------
(* C12 *)

\* C12: a failed fetch of the aircraft list does not stop the program: no handler ends
\* in log.Fatal, so after the failure the previous list is in use and ticks go on.
C12_FetchFailureSurvived == pc # "fatal"

-----------------------------------------------------------------------------
(* C13 *)

\* C13: the tick that wraps the sweep starts the fetch and completes without waiting
\* for it: the list it works with, and leaves in use, is the previous one.
C13_FireAndForget ==
    [][(TickDone /\ fetchCount' # fetchCount) => planes' = planes]_vars

-----------------------------------------------------------------------------
(* C14 *)

\* C14: concurrent sessions share no mutable state: nothing written while one session's
\* events are handled is read or written by another session, and no two sessions are
\* at an access of the same data at the same time, one of them writing.
C14_NoSharedState ==
    /\ \A s, t \in Sessions :
           (s # t /\ sess[s].wrote) => ~(sess[t].read \/ sess[t].wrote)
    /\ ~MapRace

\* C15: a glyph is written at a repaint only for an aircraft whose distance is at
\* most the range of that repaint (also when a key lowered the range after the last
\* tick), into a cell of the grid that lies within maxRadius of the center.  The
\* state looked at is the one right after the repaint (pc = "idle").
C15_PlaneAcceptance ==
    pc = "idle" => \A g \in painted :
        /\ \E i \in 1..Len(planes) :
               /\ planes[i].FlightCode = g.code
               /\ planes[i].DistanceFromObserver <= radarRange
        /\ g.x >= 0 /\ g.x < width \div 2
        /\ g.y >= 0 /\ g.y < height
        /\ LET dx == g.x - (width \div 2) \div 2
               dy == g.y - height \div 2
               maxRadius == Context(width \div 2, height).maxR
           IN  dx * dx + dy * dy <= maxRadius * maxRadius

\* A key lowered the range below the distance of an aircraft of the sweep set, the
\* frame was repainted: its glyph was not written, the glyph of a nearer one was.
C15_Witness ==
    /\ pc = "idle"
    /\ lastMsg = "key"
    /\ \E i \in 1..Len(planes) :
           /\ planes[i].FlightCode \in visiblePlanes
           /\ planes[i].DistanceFromObserver > radarRange
           /\ \A g \in painted : g.code # planes[i].FlightCode
    /\ painted # {}

(* C16 *)

\* Column 0 and row 0 of the grid hold only blank cells.
EdgeBlank ==
    \A c \in Cells(buffer) :
        (c[1] = 1 \/ c[2] = 1) => buffer[c[1]][c[2]].kind = "blank"

\* C16 as stated: the paint bounds check is strict at the lower edge (0 < x < width
\* and 0 < y < height), no painter writes column 0 or row 0, and those cells are
\* blank in every reachable state.
C16_StrictLowerEdge ==
    /\ \A x \in 0..(width \div 2 - 1), y \in 0..(height - 1) :
           inBounds(width \div 2, height, x, y) => (x > 0 /\ y > 0)
    /\ EdgeBlank

\* C16, amended: the paint bounds check accepts exactly the cells of the grid, column
\* 0 and row 0 included (0 <= x < width and 0 <= y < height); the cells of column 0
\* and row 0 are blank in every reachable state all the same, because the radius
\* leaves a padding around the disc and no painter computes a position there.
C16_InclusiveLowerEdge ==
    /\ \A x \in -1..(width \div 2), y \in -1..height :
           inBounds(width \div 2, height, x, y) <=>
               (0 <= x /\ x < width \div 2 /\ 0 <= y /\ y < height)
    /\ EdgeBlank

\* A repainted frame with a label in row 1 and a glyph written, the bounds check
\* accepting the corner cell (0, 0), and column 0 and row 0 blank.
C16_Witness ==
    /\ Rendered
    /\ painted # {}
    /\ inBounds(width \div 2, height, 0, 0)
    /\ \E x \in DOMAIN buffer[2] : buffer[2][x].kind = "label"
    /\ EdgeBlank

(* C17 *)

\* C17: a window-resize event reallocates the whole grid: right after it the grid
\* has exactly height rows of width/2 cells and every cell is (' ', blank, 100),
\* whatever the grid held before.
C17_ResizeReallocates ==
    [][UpdateStep("resize") =>
          /\ Len(buffer') = height'
          /\ \A y \in 1..Len(buffer') :
                 /\ Len(buffer'[y]) = width' \div 2
                 /\ \A x \in 1..Len(buffer'[y]) :
                        buffer'[y][x] = [char |-> " ", kind |-> "blank", sweepAge |-> 100]]_vars

\* The state right after a second resize: the frame repainted before it held
\* glyphs, and the grid is now blank from corner to corner.
C17_Witness ==
    /\ pc = "view"
    /\ lastMsg = "resize"
    /\ resizes = 2
    /\ painted # {}
    /\ Len(buffer) = height
    /\ \A c \in Cells(buffer) : buffer[c[1]][c[2]].kind = "blank"

(* C18 *)

\* The cells of the circle of radius r around the center, aspect-ratio corrected,
\* sampled every 0.1 rad: x = cx + int(r sin phi), y = cy - int(r cos phi / 2).
RingCells(ctx) ==
    {[x |-> ctx.cx + TruncDiv(ctx.r * Sin1000(k * SweepStep), 1000),
      y |-> ctx.cy - TruncDiv(ctx.r * Cos1000(k * SweepStep), 1000 * AspectInv)] :
        k \in 0..(TwoPi \div SweepStep)}

\* C18: after every repaint of a grid large enough to draw, every in-bounds cell on
\* the circle of radius maxRadius around the center has kind ring.
C18_RingPainted ==
    Rendered =>
        LET ctx == Context(width \div 2, height)
        IN  \A c \in RingCells(ctx) :
                inBounds(ctx.width, ctx.height, c.x, c.y) =>
                    buffer[c.y + 1][c.x + 1].kind = "ring"

(* C19 *)

\* C19: the step renderDistanceLabels chooses keeps the labels at least 3 cells
\* apart: with a plotting radius r > 0 the chosen step satisfies
\* step * (r / range) >= 3, or the step is the largest candidate (500).
C19_LabelsThreeCellsApart ==
    LET r == Context(width \div 2, height).r
        step == LabelStep(r, radarRange)
    IN  (Rendered /\ r > 0) =>
            \/ step * r >= 3 * radarRange
            \/ step = 500

(* C20 *)

\* C20: after any sequence of "=" and "-" key presses from the default range,
\* MIN_RADAR_RANGE <= radarRange <= MAX_RADAR_RANGE, so the range is never 0 or
\* negative where a painter divides by it.
C20_RangeBounded ==
    /\ MIN_RADAR_RANGE <= radarRange
    /\ radarRange <= MAX_RADAR_RANGE
    /\ radarRange > 0

\* The range is at its maximum after more presses than the way up from the default
\* takes: "=" was pressed at the limit, and the frame was repainted.
C20_Witness ==
    /\ radarRange = MAX_RADAR_RANGE
    /\ keys * 5 > MAX_RADAR_RANGE - DEFAULT_RADAR_RANGE
    /\ lastMsg = "key"
    /\ Rendered

(* C21 *)

\* The ages of the cells of the frame just repainted that are not ring cells.
FrameAges ==
    {buffer[c[1]][c[2]].sweepAge : c \in {d \in Cells(buffer) : buffer[d[1]][d[2]].kind # "ring"}}

\* C21 as stated: at render time the background of a non-ring cell depends on its
\* age alone, with the buckets 0 -> brightest, 1..3 -> medium, 4..12 -> dim,
\* above 12 -> none.
C21_BucketsAsStated ==
    Rendered =>
        \A a \in FrameAges :
            Background(a) = IF a = 0 THEN "brightGreen"
                            ELSE IF a <= 3 THEN "mediumGreen"
                            ELSE IF a <= 12 THEN "dimGreen"
                            ELSE "none"

\* C21, amended: at render time the background of a non-ring cell depends on its
\* age alone, with the buckets 0..2 -> brightest, 3..7 -> medium, 8..12 -> dim,
\* above 12 -> none, for every age in 0..100.
C21_BucketsOfTheCode ==
    Rendered =>
        \A a \in FrameAges :
            /\ a \in 0..MaxAge
            /\ (a \in 0..2) <=> (Background(a) = "brightGreen")
            /\ (a \in 3..7) <=> (Background(a) = "mediumGreen")
            /\ (a \in 8..12) <=> (Background(a) = "dimGreen")
            /\ (a > 12) <=> (Background(a) = "none")

\* A repainted frame that holds a cell of age 1, on which the stated buckets and the
\* ones of the code differ, a cell of an age in 3..12 and a cell without background.
C21_Witness ==
    /\ Rendered
    /\ 1 \in FrameAges
    /\ FrameAges \cap (3..12) # {}
    /\ MaxAge \in FrameAges

(* C22 *)

\* The 45-degree sector of a heading, 0 for the one centered on north, then clockwise;
\* the sectors are counted in half degrees to keep whole numbers.
Sector8(h) == (((2 * h + 45) % 720) \div 90)

C24_PaintedInWindow ==
    pc = "idle" =>
        \A g \in painted :
            \E i \in 1..Len(planes) :
                /\ planes[i].FlightCode = g.code
                /\ PlanePos(planes[i], Context(width \div 2, height), radarRange,
                            northOffset) = [x |-> g.x, y |-> g.y]
                /\ withinSweep(planes[i].BearingFromObserver, sweepAngle, SweepWidth,
                               northOffset)

(* C25 *)

\* The ticks of one revolution of the sweep.
Revolution == (TwoPi \div SweepStep) + 1

\* C25: with a fixed aircraft list, range and north offset, every aircraft with
\* distance <= radarRange raises a "newly swept" event at least once within any 63
\* consecutive ticks: no listed aircraft within range has gone 63 ticks without
\* UpdatePlaneRow being called for it.
C25_NoAircraftSkipped ==
    \A i \in 1..Len(planes) :
        planes[i].DistanceFromObserver <= radarRange => sinceSwept[i] < Revolution

\* The same for the aircraft whose flight code no other listed aircraft has.
C25_UniqueCodesNotSkipped ==
    \A i \in 1..Len(planes) :
        (/\ planes[i].DistanceFromObserver <= radarRange
         /\ \A j \in 1..Len(planes) : planes[j].FlightCode = planes[i].FlightCode => j = i)
            => sinceSwept[i] < Revolution

(* C26 *)

\* C26: no grid access is out of range: in every state in which View is about to
\* repaint (also before the first window-size message, and after one of any size),
\* every row and every cell renderRadar and its painters index lies in the grid.
C26_NoAccessOutOfRange ==
    (pc = "view" /\ width # 0) =>
        /\ \A c \in RadarCells(buffer, width \div 2, height, planes, sweepAngle,
                                northOffset, radarRange, visiblePlanes) :
               /\ 0 <= c.y /\ c.y < Len(buffer)
               /\ 0 <= c.x /\ c.x < Len(buffer[c.y + 1])
        /\ \A y \in RadarRows(buffer, width \div 2, height) : 0 <= y /\ y < Len(buffer)

\* View is about to repaint the grid of a second window-size message, and a painter
\* indexes a cell of its last column.
C26_Witness ==
    /\ pc = "view"
    /\ lastMsg = "resize"
    /\ resizes = 2
    /\ ~TooSmall(buffer, width \div 2, height)
    /\ \E c \in RadarCells(buffer, width \div 2, height, planes, sweepAngle,
                             northOffset, radarRange, visiblePlanes) :
           buffer[c.y + 1][c.x + 1].kind = "blank" /\ c.x = Len(buffer[1]) - 1

(* C27 *)

\* C27: the listing holds at most one row per flight code in every reachable state,
\* also when the list has two aircraft with one flight code.
C27_OneRowPerFlightCode ==
    \A i, j \in 1..Len(rows) : rows[i][1] = rows[j][1] => i = j

\* In the second revolution of the arm a tick calls UpdatePlaneRow for an aircraft
\* whose flight code has had a row since the first revolution, and which a second
\* listed aircraft within range shares: the listing has one row with the code, the
\* new one, at the top.
C27_Witness ==
    /\ lastMsg = "tick"
    /\ ticks > Revolution + EventHorizon
    /\ \E a \in 1..Len(swept), i \in 1..Len(planes) :
           /\ planes[i].FlightCode = swept[a].FlightCode
           /\ planes[i].DistanceFromObserver # swept[a].DistanceFromObserver
           /\ planes[i].DistanceFromObserver <= radarRange
           /\ {r \in 1..Len(rows) : rows[r][1] = swept[a].FlightCode} = {1}
           /\ rows[1][2] = swept[a].DistanceFromObserver

(* C28 *)

\* C28: while the program runs (View is due or it waits for a message) exactly one
\* tick is pending: ticks neither stop nor multiply, whatever the order of the tick,
\* key and window-size messages.
C28_OneTickPending ==
    pc \in {"view", "idle"} => pendingTicks = 1

\* Ticks, a key that opened the modal and a window-size message have been handled,
\* the last of them a tick, and one tick is pending.
C28_Witness ==
    /\ pc = "idle"
    /\ lastMsg = "tick"
    /\ ticks >= 2
    /\ keys >= 1
    /\ resizes >= 1
    /\ showModal
    /\ pendingTicks = 1

(* C29 *)

\* Update on a key message whose key is ctrl+c.
CtrlC == KeyMsgOf({"ctrl+c"}, MaxModalKeys)

\* C29: pressing ctrl+c quits from every reachable state: every Update on a ctrl+c
\* key message returns the Quit command, whether or not the modal is open and focused.
C29_CtrlCQuits == [][CtrlC => pc' = "quit"]_vars

\* What the code does: ctrl+c quits exactly when the modal is not open and focused.
C29_CtrlCQuitsOutsideModal ==
    [][CtrlC => (pc' = "quit" <=> ~(showModal /\ modalFocused))]_vars

(* C30 *)

\* The lookups that failed: the request, the read of the body or the decoding.
FailedOutcomes == {"getErr", "readErr", "badJson"}

\* C30: a call of SetFlightRouteInfo makes no lookup exactly when the flight code has
\* a cache entry of age <= 10 minutes, and then gives the cached route and leaves the
\* cache alone; a lookup that failed gives the empty route and leaves the cache
\* unchanged; a lookup that gave "unknown callsign" or a decoded route writes the
\* entry of that flight code, stamped now, and no other.
C30_FailedLookupLeavesCache ==
    [][ApplySetFlightRouteInfo =>
         LET code == probe'.code
             fresh == /\ code \in DOMAIN routeInfoCache
                      /\ now - routeInfoCache[code].cachedAt <= 10
         IN  /\ probe'.lookedUp <=> ~fresh
             /\ fresh => /\ routeInfoCache' = routeInfoCache
                          /\ probe'.route = routeInfoCache[code].route
             /\ (~fresh /\ probe'.outcome \in FailedOutcomes) =>
                    /\ routeInfoCache' = routeInfoCache
                    /\ probe'.route = EmptyRoute
             /\ (~fresh /\ probe'.outcome \notin FailedOutcomes) =>
                    /\ DOMAIN routeInfoCache' = DOMAIN routeInfoCache \cup {code}
                    /\ routeInfoCache'[code] = [route |-> probe'.route, cachedAt |-> now]
                    /\ \A c \in DOMAIN routeInfoCache \ {code} :
                           routeInfoCache'[c] = routeInfoCache[c]
                    /\ probe'.outcome = "unknown" => probe'.route = EmptyRoute
    ]_vars

\* A lookup for a flight code whose entry had expired failed: the aircraft has the
\* empty route, and the cache still holds the expired entry with its decoded route.
C30_Witness ==
    /\ probe.applied
    /\ probe.lookedUp
    /\ probe.outcome \in FailedOutcomes
    /\ probe.route = EmptyRoute
    /\ probe.code \in DOMAIN routeInfoCache
    /\ routeInfoCache[probe.code].route # EmptyRoute
    /\ now - routeInfoCache[probe.code].cachedAt > RouteTTL

====
